---------------------------- MODULE Spec2Model ----------------------------
(* A model of the libretranslate Go client: the request builder, the      *)
(* transport round trip, the response checker and the three endpoint      *)
(* operations, in the two variants of the package that the repository     *)
(* holds:                                                                 *)
(*   _nt  the variant without a token (libretranslate.go)                 *)
(*   _tk  the variant constructed with a token (unnamed/part_000)         *)
(* Go strings that the code takes apart (URLs, paths) are sequences of    *)
(* tokens; a response body is the JSON document it holds, and decoding    *)
(* follows encoding/json: a document is first scanned whole (EOF and      *)
(* syntax errors decode nothing), then stored into the target, where a    *)
(* type mismatch is remembered and the rest of the document is still      *)
(* stored.                                                                *)
EXTENDS Integers, Sequences, FiniteSets, TLC

(***************************************************************************)
(* Bounds                                                                  *)
(***************************************************************************)
\* number of calls that share one client in the concurrent specification
NCalls == 2
\* longest JSON array a simulated 200 response holds
MaxItems == 2

(***************************************************************************)
(* Go values                                                               *)
(***************************************************************************)
StatusOK == 200

MethodGet == "GET"
MethodPost == "POST"

\* the error interface: nil, or an error of one of the kinds the code makes
NoErr == [kind |-> "nil", status |-> 0, msg |-> ""]
Err(kind, status, msg) == [kind |-> kind, status |-> status, msg |-> msg]

\* a slice: nil, or a (possibly empty) sequence of items
NilSlice == [nil |-> TRUE, items |-> <<>>]
Slice(items) == [nil |-> FALSE, items |-> items]

(***************************************************************************)
(* JSON documents                                                          *)
(***************************************************************************)
JStr(s) == [t |-> "string", s |-> s]
JNum(n) == [t |-> "number", n |-> n]
JObj(f) == [t |-> "object", f |-> f]
JArr(a) == [t |-> "array", a |-> a]

\* body texts: nothing at all, text that is not JSON, or a JSON document
EmptyText == [text |-> "empty"]
GarbageText == [text |-> "garbage"]
Doc(v) == [text |-> "json", v |-> v]


\* JSON null, and the set of tokens a body text can be
JNull == [t |-> "null"]

(***************************************************************************)
(* Go types that the package decodes into.  A struct type maps each JSON   *)
(* key of its field tags to the type of the field; struct values are       *)
(* records over those keys.                                                *)
(***************************************************************************)
TString == [go |-> "string"]
TFloat64 == [go |-> "float64"]
TStruct(fields) == [go |-> "struct", fields |-> fields]
TSlice(elem) == [go |-> "slice", elem |-> elem]

Detection == TStruct([confidence |-> TFloat64, language |-> TString])
Language == TStruct([code |-> TString, name |-> TString])
TranslateResult_nt == TStruct([translatedText |-> TString])
TranslateResult_tk == TStruct([detectedLanguage |-> Detection, translatedText |-> TString])
apiError == TStruct([error |-> TString])

RECURSIVE Zero(_)
Zero(T) ==
    CASE T.go = "string" -> ""
      [] T.go = "float64" -> 0
      [] T.go = "struct" -> [k \in DOMAIN T.fields |-> Zero(T.fields[k])]
      [] T.go = "slice" -> NilSlice

\* encoding/json storing the JSON value v into a target of type T that holds
\* cur.  ok is FALSE when some value did not fit its target (the decoder
\* saves the first UnmarshalTypeError and goes on storing the rest).
RECURSIVE Store(_, _, _)
Store(T, v, cur) ==
    IF v.t = "null"
    THEN [val |-> IF T.go = "slice" THEN NilSlice ELSE cur, ok |-> TRUE]
    ELSE CASE T.go = "string" ->
                IF v.t = "string" THEN [val |-> v.s, ok |-> TRUE]
                ELSE [val |-> cur, ok |-> FALSE]
           [] T.go = "float64" ->
                IF v.t = "number" THEN [val |-> v.n, ok |-> TRUE]
                ELSE [val |-> cur, ok |-> FALSE]
           [] T.go = "struct" ->
                IF v.t = "object"
                THEN LET r == [k \in DOMAIN T.fields |->
                                 IF k \in DOMAIN v.f
                                 THEN Store(T.fields[k], v.f[k], cur[k])
                                 ELSE [val |-> cur[k], ok |-> TRUE]]
                     IN [val |-> [k \in DOMAIN T.fields |-> r[k].val],
                         ok |-> \A k \in DOMAIN T.fields : r[k].ok]
                ELSE [val |-> cur, ok |-> FALSE]
           [] T.go = "slice" ->
                IF v.t = "array"
                THEN LET r == [i \in 1..Len(v.a) |-> Store(T.elem, v.a[i], Zero(T.elem))]
                     IN [val |-> Slice([i \in 1..Len(v.a) |-> r[i].val]),
                         ok |-> \A i \in 1..Len(v.a) : r[i].ok]
                ELSE [val |-> cur, ok |-> FALSE]

\* Decode as it would be if the items of a slice came out last first
Decode_reversed(T, body, cur) ==
    CASE body.text = "empty" -> [val |-> cur, err |-> Err("json", 0, "EOF")]
      [] body.text = "garbage" -> [val |-> cur, err |-> Err("json", 0, "invalid character")]
      [] body.text = "json" ->
            LET r == Store(T, body.v, cur)
                n == IF T.go = "slice" THEN Len(r.val.items) ELSE 0
            IN [val |-> IF T.go = "slice" /\ ~r.val.nil
                        THEN Slice([k \in 1..n |-> r.val.items[n + 1 - k]])
                        ELSE r.val,
                err |-> IF r.ok THEN NoErr ELSE Err("json", 0, "cannot unmarshal")]

\* json.NewDecoder(body).Decode(&target): the next JSON value of the text is
\* read whole before anything is stored
Decode(T, body, cur) ==
    CASE body.text = "empty" -> [val |-> cur, err |-> Err("json", 0, "EOF")]
      [] body.text = "garbage" -> [val |-> cur, err |-> Err("json", 0, "invalid character")]
      [] body.text = "json" ->
            LET r == Store(T, body.v, cur)
            IN [val |-> r.val,
                err |-> IF r.ok THEN NoErr ELSE Err("json", 0, "cannot unmarshal")]

(***************************************************************************)
(* URLs and paths, as sequences of tokens                                  *)
(***************************************************************************)
CTL == "\\x7f"

\* url.Parse
Parse(s) ==
    IF \E i \in 1..Len(s) : s[i] = CTL
    THEN [err |-> Err("parse", 0, "invalid control character in URL"),
          url |-> [Scheme |-> "", Host |-> "", Path |-> <<>>]]
    ELSE IF Len(s) > 0 /\ s[1] = ":"
    THEN [err |-> Err("parse", 0, "missing protocol scheme"),
          url |-> [Scheme |-> "", Host |-> "", Path |-> <<>>]]
    ELSE IF Len(s) >= 3 /\ s[2] = "://"
    THEN [err |-> NoErr,
          url |-> [Scheme |-> s[1], Host |-> s[3], Path |-> SubSeq(s, 4, Len(s))]]
    ELSE [err |-> NoErr, url |-> [Scheme |-> "", Host |-> "", Path |-> s]]

\* (*url.URL).String
String(u) ==
    (IF u.Scheme # "" THEN <<u.Scheme, "://", u.Host>> ELSE <<>>) \o u.Path

RECURSIVE Rooted(_)
Rooted(segs) ==
    IF segs = <<>> THEN <<>> ELSE <<"/", Head(segs)>> \o Rooted(Tail(segs))

\* path.Clean, for paths without dot elements
Clean(p) ==
    LET segs == SelectSeq(p, LAMBDA t : t # "/")
    IN IF p = <<>> THEN <<".">>
       ELSE IF p[1] = "/"
            THEN (IF segs = <<>> THEN <<"/">> ELSE Rooted(segs))
            ELSE IF segs = <<>> THEN <<".">> ELSE Tail(Rooted(segs))

\* path.Join of two elements: empty elements are ignored
Join(a, b) ==
    IF a = <<>> /\ b = <<>> THEN <<>>
    ELSE IF a = <<>> THEN Clean(b)
    ELSE IF b = <<>> THEN Clean(a)
    ELSE Clean(a \o <<"/">> \o b)

(***************************************************************************)
(* Form parameters and requests                                            *)
(***************************************************************************)
\* url.Values{} and (url.Values).Set
Values == <<>>
Set(params, key, value) ==
    [k \in DOMAIN params \cup {key} |-> IF k = key THEN value ELSE params[k]]

\* (url.Values).Encode: the pairs, sorted by key
KeyOrder == <<"api_key", "q", "source", "target">>
Encode(params) ==
    LET keys == SelectSeq(KeyOrder, LAMBDA k : k \in DOMAIN params)
    IN [i \in 1..Len(keys) |-> <<keys[i], params[keys[i]]>>]

NilRequest == [nil |-> TRUE]

\* http.NewRequest
NewRequest(method, rawurl, body) ==
    LET parsed(u) ==
            IF u.err # NoErr
            THEN [req |-> NilRequest, err |-> u.err]
            ELSE [req |-> [nil |-> FALSE, Method |-> method, URL |-> u.url,
                           Body |-> body, Header |-> <<>>],
                  err |-> NoErr]
    IN IF method \notin {"GET", "HEAD", "POST", "PUT", "PATCH", "DELETE", "CONNECT", "OPTIONS", "TRACE"}
       THEN [req |-> NilRequest, err |-> Err("net/http", 0, "invalid method")]
       ELSE parsed(Parse(rawurl))

(***************************************************************************)
(* The client                                                              *)
(***************************************************************************)
DefaultBaseURL_nt == <<"https", "://", "translate.argosopentech.com">>
DefaultBaseURL_tk == <<"https", "://", "libretranslate.com">>

\* the values of type Client: the variant without a token has no token field
Client_nt(baseUrl) == [baseUrl |-> baseUrl, client |-> "http.DefaultClient"]
Client_tk(baseUrl, token) ==
    [baseUrl |-> baseUrl, token |-> token, client |-> "http.DefaultClient"]

NewClient_nt == Client_nt(DefaultBaseURL_nt)
NewClient_tk(token) == Client_tk(DefaultBaseURL_tk, token)
NewClientWithBaseURL(baseURL, token) == Client_tk(baseURL, token)

HasToken(c) == "token" \in DOMAIN c

\* buildRequest: the same code in both variants
buildRequest(c, method, endpoint, params) ==
    LET created(r) ==
            IF r.err # NoErr
            THEN [req |-> NilRequest,
                  err |-> Err("HTTP request creation error: %s", 0, r.err.msg)]
            ELSE IF method = MethodPost
                 THEN [req |-> [r.req EXCEPT !.Header =
                                  Set(r.req.Header, "Content-Type",
                                      "application/x-www-form-urlencoded")],
                       err |-> NoErr]
                 ELSE [req |-> r.req, err |-> NoErr]
        parsed(uri) ==
            IF uri.err # NoErr
            THEN [req |-> NilRequest, err |-> Err("URL parsing error: %s", 0, uri.err.msg)]
            ELSE created(NewRequest(method,
                                    String([uri.url EXCEPT !.Path = Join(uri.url.Path, endpoint)]),
                                    Encode(params)))
    IN parsed(Parse(c.baseUrl))

(***************************************************************************)
(* The transport.  A reply is what one round trip of the shared            *)
(* http.Client gives: an error, or a response with a status code and a     *)
(* body stream.                                                            *)
(***************************************************************************)
NilResponse == [nil |-> TRUE]
Response(status, text) == [nil |-> FALSE, StatusCode |-> status, Body |-> text]
TransportFailure(e) == [res |-> NilResponse, err |-> Err("transport", 0, e)]
TransportReply(status, text) == [res |-> Response(status, text), err |-> NoErr]

\* (*http.Client).Do: a nil request is dereferenced before anything is sent
Do(client, req, reply) ==
    IF req.nil
    THEN [panic |-> TRUE, res |-> NilResponse, err |-> NoErr]
    ELSE [panic |-> FALSE, res |-> reply.res, err |-> reply.err]

NilBody == [text |-> "nil"]

\* checkForResponseErrors as it would be if every 2xx status passed
checkForResponseErrors_2xx(res) ==
    LET decoded(status, result) ==
            IF result.err # NoErr
            THEN [body |-> NilBody,
                  err |-> Err("API error: non-ok response (%d) from the API and failed to decode error message",
                             status, "")]
            ELSE [body |-> NilBody,
                  err |-> Err("API error: code %d - %s", status, result.val.error)]
        checked(body, status) ==
            IF status < 200 \/ status > 299
            THEN decoded(status, Decode(apiError, body, Zero(apiError)))
            ELSE [body |-> body, err |-> NoErr]
    IN checked(res.Body, res.StatusCode)

\* checkForResponseErrors as it would be if it returned the decoder's error
checkForResponseErrors_decodeErr(res) ==
    LET decoded(status, result) ==
            IF result.err # NoErr
            THEN [body |-> NilBody,
                  err |-> result.err]
            ELSE [body |-> NilBody,
                  err |-> Err("API error: code %d - %s", status, result.val.error)]
        checked(body, status) ==
            IF status # StatusOK
            THEN decoded(status, Decode(apiError, body, Zero(apiError)))
            ELSE [body |-> body, err |-> NoErr]
    IN checked(res.Body, res.StatusCode)

\* checkForResponseErrors: the same code in both variants
checkForResponseErrors(res) ==
    LET decoded(status, result) ==
            IF result.err # NoErr
            THEN [body |-> NilBody,
                  err |-> Err("API error: non-ok response (%d) from the API and failed to decode error message",
                             status, "")]
            ELSE [body |-> NilBody,
                  err |-> Err("API error: code %d - %s", status, result.val.error)]
        checked(body, status) ==
            IF status # StatusOK
            THEN decoded(status, Decode(apiError, body, Zero(apiError)))
            ELSE [body |-> body, err |-> NoErr]
    IN checked(res.Body, res.StatusCode)

\* doRequest as it would be if it wrapped the error of client.Do
doRequest_wrapped(client, req, reply) ==
    LET checked(k) ==
            [panic |-> FALSE, checked |-> TRUE, body |-> k.body, err |-> k.err]
        done(d) ==
            IF d.panic
            THEN [panic |-> TRUE, checked |-> FALSE, body |-> NilBody, err |-> NoErr]
            ELSE IF d.err # NoErr
                 THEN [panic |-> FALSE, checked |-> FALSE, body |-> NilBody,
                       err |-> Err("request error: %s", 0, d.err.msg)]
                 ELSE checked(checkForResponseErrors(d.res))
    IN done(Do(client, req, reply))

\* doRequest (token variant)
doRequest(client, req, reply) ==
    LET checked(k) ==
            [panic |-> FALSE, checked |-> TRUE, body |-> k.body, err |-> k.err]
        done(d) ==
            IF d.panic
            THEN [panic |-> TRUE, checked |-> FALSE, body |-> NilBody, err |-> NoErr]
            ELSE IF d.err # NoErr
                 THEN [panic |-> FALSE, checked |-> FALSE, body |-> NilBody,
                       err |-> d.err]
                 ELSE checked(checkForResponseErrors(d.res))
    IN done(Do(client, req, reply))

(***************************************************************************)
(* The endpoint operations.  Each is the whole Go method, given the reply  *)
(* the transport makes to its request (unused when the method returns or   *)
(* panics before a request is sent).  The outcome records, besides the     *)
(* returned pair:                                                          *)
(*   req      the request handed to client.Do (NilRequest if none built)   *)
(*   called   how many times client.Do was invoked                         *)
(*   panic    the method did not return: nil pointer dereference           *)
(*   checked  checkForResponseErrors ran                                   *)
(*   decoded  the decode of the 200 body into the result ran               *)
(*   closes   how many times Close was called on the response body         *)
(* The steps of a method are local operators, read from the last line up:  *)
(* built takes the result of buildRequest, done the one of client.Do (or   *)
(* doRequest), checked the one of checkForResponseErrors and decoded the   *)
(* one of the decode of the body, after the deferred Close was set up.     *)
(***************************************************************************)
Outcome(req, called, checked, decoded, closes, value, err) ==
    [req |-> req, called |-> called, panic |-> FALSE, checked |-> checked,
     decoded |-> decoded, closes |-> closes, value |-> value, err |-> err]

Panicked(req, called) ==
    [req |-> req, called |-> called, panic |-> TRUE, checked |-> FALSE,
     decoded |-> FALSE, closes |-> 0]

Detect_nt(c, q, reply) ==
    LET decoded(req, r) ==
            IF r.err # NoErr
            THEN Outcome(req, 1, TRUE, TRUE, 1, NilSlice, r.err)
            ELSE Outcome(req, 1, TRUE, TRUE, 1, r.val, NoErr)
        checked(req, k) ==
            IF k.err # NoErr
            THEN Outcome(req, 1, TRUE, FALSE, 0, NilSlice, k.err)
            ELSE decoded(req, Decode(TSlice(Detection), k.body, Slice(<<>>)))
        done(req, d) ==
            IF d.panic THEN Panicked(req, 1)
            ELSE IF d.err # NoErr
                 THEN Outcome(req, 1, FALSE, FALSE, 0, NilSlice, d.err)
                 ELSE checked(req, checkForResponseErrors(d.res))
        built(b) ==
            IF b.err # NoErr
            THEN Outcome(b.req, 0, FALSE, FALSE, 0, NilSlice, b.err)
            ELSE done(b.req, Do(c.client, b.req, reply))
    IN built(buildRequest(c, MethodPost, <<"/", "detect">>, Set(Values, "q", q)))

\* the error of buildRequest is not tested: it is overwritten by the one of
\* client.Do, which is handed the nil request
GetLanguages_nt(c, reply) ==
    LET decoded(req, r) ==
            IF r.err # NoErr
            THEN Outcome(req, 1, TRUE, TRUE, 1, r.val, r.err)
            ELSE Outcome(req, 1, TRUE, TRUE, 1, r.val, NoErr)
        checked(req, k) ==
            IF k.err # NoErr
            THEN Outcome(req, 1, TRUE, FALSE, 0, NilSlice, k.err)
            ELSE decoded(req, Decode(TSlice(Language), k.body, Slice(<<>>)))
        done(req, d) ==
            IF d.panic THEN Panicked(req, 1)
            ELSE IF d.err # NoErr
                 THEN Outcome(req, 1, FALSE, FALSE, 0, NilSlice, d.err)
                 ELSE checked(req, checkForResponseErrors(d.res))
        built(b) == done(b.req, Do(c.client, b.req, reply))
    IN built(buildRequest(c, MethodGet, <<"/", "languages">>, Values))

\* Translate as it would be if the body were closed after the decode
\* succeeded instead of by a deferred call
Translate_nt_closeLate(c, query, source, target, reply) ==
    LET decoded(req, r) ==
            IF r.err # NoErr
            THEN Outcome(req, 1, TRUE, TRUE, 0, "", r.err)
            ELSE Outcome(req, 1, TRUE, TRUE, 1, r.val.translatedText, NoErr)
        checked(req, k) ==
            IF k.err # NoErr
            THEN Outcome(req, 1, TRUE, FALSE, 0, "", k.err)
            ELSE decoded(req, Decode(TranslateResult_nt, k.body, Zero(TranslateResult_nt)))
        done(req, d) ==
            IF d.panic THEN Panicked(req, 1)
            ELSE IF d.err # NoErr
                 THEN Outcome(req, 1, FALSE, FALSE, 0, "", d.err)
                 ELSE checked(req, checkForResponseErrors(d.res))
        built(b) ==
            IF b.err # NoErr
            THEN Outcome(b.req, 0, FALSE, FALSE, 0, "", b.err)
            ELSE done(b.req, Do(c.client, b.req, reply))
    IN built(buildRequest(c, MethodPost, <<"/", "translate">>, Set(Set(Set(Values, "q", query), "source", source), "target", target)))

Translate_nt(c, query, source, target, reply) ==
    LET decoded(req, r) ==
            IF r.err # NoErr
            THEN Outcome(req, 1, TRUE, TRUE, 1, "", r.err)
            ELSE Outcome(req, 1, TRUE, TRUE, 1, r.val.translatedText, NoErr)
        checked(req, k) ==
            IF k.err # NoErr
            THEN Outcome(req, 1, TRUE, FALSE, 0, "", k.err)
            ELSE decoded(req, Decode(TranslateResult_nt, k.body, Zero(TranslateResult_nt)))
        done(req, d) ==
            IF d.panic THEN Panicked(req, 1)
            ELSE IF d.err # NoErr
                 THEN Outcome(req, 1, FALSE, FALSE, 0, "", d.err)
                 ELSE checked(req, checkForResponseErrors(d.res))
        built(b) ==
            IF b.err # NoErr
            THEN Outcome(b.req, 0, FALSE, FALSE, 0, "", b.err)
            ELSE done(b.req, Do(c.client, b.req, reply))
    IN built(buildRequest(c, MethodPost, <<"/", "translate">>, Set(Set(Set(Values, "q", query), "source", source), "target", target)))

Detect_tk(c, q, reply) ==
    LET decoded(req, checked, r) ==
            Outcome(req, 1, checked, TRUE, 1, r.val, r.err)
        done(req, d) ==
            IF d.panic THEN Panicked(req, 1)
            ELSE IF d.err # NoErr
                 THEN Outcome(req, 1, d.checked, FALSE, 0, NilSlice, d.err)
                 ELSE decoded(req, d.checked, Decode(TSlice(Detection), d.body, Slice(<<>>)))
        built(b) ==
            IF b.err # NoErr
            THEN Outcome(b.req, 0, FALSE, FALSE, 0, NilSlice, b.err)
            ELSE done(b.req, doRequest(c.client, b.req, reply))
    IN built(buildRequest(c, MethodPost, <<"/", "detect">>, Set(Set(Values, "q", q), "api_key", c.token)))

\* GetLanguages as it would be if it passed the empty parameter set
GetLanguages_tk_noKey(c, reply) ==
    LET decoded(req, checked, r) ==
            Outcome(req, 1, checked, TRUE, 1, r.val, r.err)
        done(req, d) ==
            IF d.panic THEN Panicked(req, 1)
            ELSE IF d.err # NoErr
                 THEN Outcome(req, 1, d.checked, FALSE, 0, NilSlice, d.err)
                 ELSE decoded(req, d.checked, Decode(TSlice(Language), d.body, Slice(<<>>)))
        built(b) ==
            IF b.err # NoErr
            THEN Outcome(b.req, 0, FALSE, FALSE, 0, NilSlice, b.err)
            ELSE done(b.req, doRequest(c.client, b.req, reply))
    IN built(buildRequest(c, MethodGet, <<"/", "languages">>, Values))

GetLanguages_tk(c, reply) ==
    LET decoded(req, checked, r) ==
            Outcome(req, 1, checked, TRUE, 1, r.val, r.err)
        done(req, d) ==
            IF d.panic THEN Panicked(req, 1)
            ELSE IF d.err # NoErr
                 THEN Outcome(req, 1, d.checked, FALSE, 0, NilSlice, d.err)
                 ELSE decoded(req, d.checked, Decode(TSlice(Language), d.body, Slice(<<>>)))
        built(b) ==
            IF b.err # NoErr
            THEN Outcome(b.req, 0, FALSE, FALSE, 0, NilSlice, b.err)
            ELSE done(b.req, doRequest(c.client, b.req, reply))
    IN built(buildRequest(c, MethodGet, <<"/", "languages">>, Set(Values, "api_key", c.token)))

Translate_tk(c, query, source, target, reply) ==
    LET decoded(req, checked, r) ==
            IF r.err # NoErr
            THEN Outcome(req, 1, checked, TRUE, 1, "", r.err)
            ELSE Outcome(req, 1, checked, TRUE, 1, r.val.translatedText, NoErr)
        done(req, d) ==
            IF d.panic THEN Panicked(req, 1)
            ELSE IF d.err # NoErr
                 THEN Outcome(req, 1, d.checked, FALSE, 0, "", d.err)
                 ELSE decoded(req, d.checked, Decode(TranslateResult_tk, d.body, Zero(TranslateResult_tk)))
        built(b) ==
            IF b.err # NoErr
            THEN Outcome(b.req, 0, FALSE, FALSE, 0, "", b.err)
            ELSE done(b.req, doRequest(c.client, b.req, reply))
    IN built(buildRequest(c, MethodPost, <<"/", "translate">>, Set(Set(Set(Set(Values, "q", query), "source", source), "target", target), "api_key", c.token)))

\* a method call on a client of either variant
Run(c, op, args, reply) ==
    CASE op = "Detect" ->
            IF HasToken(c) THEN Detect_tk(c, args[1], reply)
            ELSE Detect_nt(c, args[1], reply)
      [] op = "GetLanguages" ->
            IF HasToken(c) THEN GetLanguages_tk(c, reply)
            ELSE GetLanguages_nt(c, reply)
      [] op = "Translate" ->
            IF HasToken(c) THEN Translate_tk(c, args[1], args[2], args[3], reply)
            ELSE Translate_nt(c, args[1], args[2], args[3], reply)

(***************************************************************************)
(* The inputs: clients, arguments and what the simulated service answers   *)
(***************************************************************************)
CustomBaseURL == <<"https", "://", "localhost:5000", "/", "api", "/">>
NoSchemeURL == <<":", "bad">>
ControlCharURL == <<"https", "://", "localhost:5000", CTL>>

BaseURLs == {CustomBaseURL, NoSchemeURL, ControlCharURL}
Tokens == {"secret", ""}

\* the clients of both variants; a Client value of the variant without a
\* token that holds another base URL is built as a struct value of the package
Clients ==
    {NewClient_nt} \cup {Client_nt(u) : u \in BaseURLs}
    \cup {NewClient_tk(t) : t \in Tokens}
    \cup {NewClientWithBaseURL(u, t) : u \in BaseURLs, t \in Tokens}

Queries == {"Hello", "Hola"}
Sources == {"en", "auto"}
Targets == {"fr"}

DetEn == JObj([confidence |-> JNum(90), language |-> JStr("en")])
DetFr == JObj([confidence |-> JNum(10), language |-> JStr("fr")])
LangEn == JObj([code |-> JStr("en"), name |-> JStr("English")])
LangFr == JObj([code |-> JStr("fr"), name |-> JStr("French")])
Items == {DetEn, DetFr, LangEn, LangFr, JNum(5)}

Arrays == UNION {[1..k -> Items] : k \in 0..MaxItems}

Texts ==
    {EmptyText, GarbageText, Doc(JNull),
     Doc(JObj([error |-> JStr("invalid api key")])),
     Doc(JObj([error |-> JNum(5)])),
     Doc(JObj([translatedText |-> JStr("Bonjour")])),
     Doc(JObj([translatedText |-> JStr("Bonjour"), detectedLanguage |-> DetEn])),
     Doc(JObj([translatedText |-> JStr("Bonjour"), detectedLanguage |-> JStr("en")])),
     Doc(JObj([translatedText |-> JNum(5)]))}
    \cup {Doc(JArr(a)) : a \in Arrays}

Statuses == {200, 201, 403, 500}
TransportErrors == {"connection refused", "timeout"}

Replies ==
    {TransportFailure(e) : e \in TransportErrors}
    \cup {TransportReply(st, tx) : st \in Statuses, tx \in Texts}

\* the smaller world of the concurrent specification
ConcClients ==
    {NewClient_nt, Client_nt(NoSchemeURL), NewClientWithBaseURL(CustomBaseURL, "secret")}
ConcReplies ==
    {TransportFailure("connection refused"),
     TransportReply(200, Doc(JObj([translatedText |-> JStr("Bonjour")]))),
     TransportReply(200, Doc(JArr(<<LangEn, JNum(5)>>))),
     TransportReply(403, Doc(JObj([error |-> JStr("invalid api key")])))}

(***************************************************************************)
(* The state machine: callers that share one client                        *)
(***************************************************************************)
VARIABLES
    client,     \* the Client value all calls are made on
    service,    \* the replies the simulated transport can make
    calls       \* per caller: where its call is, and what it got

vars == <<client, service, calls>>

Idle == [pc |-> "idle"]
\* stands for the reply of a round trip that has not happened
NoReply == TransportFailure("no reply")

\* a method is entered and runs up to the point where client.Do blocks on
\* the network, or to its end when it never gets there
Enter(i, op, args) ==
    /\ calls[i].pc = "idle"
    /\ \E pre \in {Run(client, op, args, NoReply)} :
          calls' = [calls EXCEPT ![i] =
             IF pre.panic
             THEN [pc |-> "panicked", op |-> op, args |-> args, out |-> pre]
             ELSE IF pre.called = 0
             THEN [pc |-> "returned", op |-> op, args |-> args, out |-> pre]
             ELSE [pc |-> "waiting", op |-> op, args |-> args, req |-> pre.req]]
    /\ UNCHANGED <<client, service>>

Detect(i, q) == Enter(i, "Detect", <<q>>)

GetLanguages(i) == Enter(i, "GetLanguages", <<>>)

Translate(i, query, source, target) == Enter(i, "Translate", <<query, source, target>>)

\* the transport completes the round trip of call i's request
RoundTrip(i) ==
    /\ calls[i].pc = "waiting"
    /\ \E reply \in service :
          calls' = [calls EXCEPT ![i] =
             [pc |-> "replied", op |-> calls[i].op, args |-> calls[i].args,
              req |-> calls[i].req, reply |-> reply]]
    /\ UNCHANGED <<client, service>>

\* Return as it would be if the transport handed a call the response to
\* another call's request
Return_crossed(i) ==
    /\ calls[i].pc = "replied"
    /\ \E j \in DOMAIN calls :
          /\ calls[j].pc = "replied"
          /\ calls' = [calls EXCEPT ![i] =
                [pc |-> "returned", op |-> calls[i].op, args |-> calls[i].args,
                 reply |-> calls[i].reply,
                 out |-> Run(client, calls[i].op, calls[i].args, calls[j].reply)]]
    /\ UNCHANGED <<client, service>>

\* client.Do returns in call i, and the method runs to its end
Return(i) ==
    /\ calls[i].pc = "replied"
    /\ calls' = [calls EXCEPT ![i] =
          [pc |-> "returned", op |-> calls[i].op, args |-> calls[i].args,
           reply |-> calls[i].reply,
           out |-> Run(client, calls[i].op, calls[i].args, calls[i].reply)]]
    /\ UNCHANGED <<client, service>>

Init ==
    /\ client \in Clients
    /\ service = Replies
    /\ calls = [i \in {1} |-> Idle]

InitConc ==
    /\ client \in ConcClients
    /\ service = ConcReplies
    /\ calls = [i \in 1..NCalls |-> Idle]

Next ==
    \E i \in DOMAIN calls :
        \/ \E q \in Queries : Detect(i, q)
        \/ GetLanguages(i)
        \/ \E q \in Queries, s \in Sources, t \in Targets : Translate(i, q, s, t)
        \/ RoundTrip(i)
        \/ Return(i)

Spec == Init /\ [][Next]_vars

SpecConc == InitConc /\ [][Next]_vars

(***************************************************************************)
(* Vocabulary of the properties                                            *)
(***************************************************************************)
Callers == DOMAIN calls
Ended(i) == calls[i].pc \in {"returned", "panicked"}
\* call i returned after the transport delivered a response to it
Delivered(i) ==
    /\ calls[i].pc = "returned"
    /\ "reply" \in DOMAIN calls[i]
    /\ ~calls[i].reply.res.nil
StatusOf(i) == calls[i].reply.res.StatusCode
TextOf(i) == calls[i].reply.res.Body

\* the zero result of an operation: no items, or the empty string
NoValue(op, value) ==
    IF op = "Translate" THEN value = "" ELSE value.items = <<>>

\* a body text that holds the service's error payload, and its message: a
\* JSON object (or null) in which the key error, if there, holds a string
IsErrorPayload(tx) ==
    /\ tx.text = "json"
    /\ \/ tx.v.t = "null"
       \/ /\ tx.v.t = "object"
          /\ "error" \in DOMAIN tx.v.f => tx.v.f.error.t \in {"string", "null"}
PayloadMessage(tx) ==
    IF tx.v.t = "object" /\ "error" \in DOMAIN tx.v.f /\ tx.v.f.error.t = "string"
    THEN tx.v.f.error.s
    ELSE ""

ApiErrorFormat == "API error: code %d - %s"
UndecodableFormat ==
    "API error: non-ok response (%d) from the API and failed to decode error message"

(***************************************************************************)
(* C1                                                                      *)
(***************************************************************************)
\* C1: for each operation, a response whose status is not 200 (201 too) and
\* whose body decodes as the error payload makes the call fail with the API
\* error that carries that status and the decoded message, with no value.
C1_ApiErrorCarriesStatusAndMessage ==
    \A i \in Callers :
        (Delivered(i) /\ StatusOf(i) # 200 /\ IsErrorPayload(TextOf(i)))
        => /\ calls[i].out.err = Err(ApiErrorFormat, StatusOf(i), PayloadMessage(TextOf(i)))
           /\ IF calls[i].op = "Translate" THEN calls[i].out.value = ""
              ELSE calls[i].out.value = NilSlice

C1_Witness ==
    \E i \in Callers :
        /\ Delivered(i) /\ StatusOf(i) = 201
        /\ TextOf(i) = Doc(JObj([error |-> JStr("invalid api key")]))
        /\ calls[i].out.err.status = 201
        /\ calls[i].out.err.msg = "invalid api key"

(***************************************************************************)
(* C2                                                                      *)
(***************************************************************************)
\* C2: for each operation, a response whose status is not 200 and whose body
\* is empty or is not the error payload makes the call return (it does not
\* panic) the API error with that status and the fixed failed-to-decode
\* note, never the decoder's own error.
C2_UndecodableErrorKeepsStatus ==
    \A i \in Callers :
        (Ended(i) /\ "reply" \in DOMAIN calls[i] /\ ~calls[i].reply.res.nil
           /\ StatusOf(i) # 200 /\ ~IsErrorPayload(TextOf(i)))
        => /\ calls[i].pc = "returned"
           /\ ~calls[i].out.panic
           /\ calls[i].out.err = Err(UndecodableFormat, StatusOf(i), "")
           /\ NoValue(calls[i].op, calls[i].out.value)

C2_Witness ==
    \E i \in Callers :
        /\ Delivered(i) /\ StatusOf(i) = 500 /\ TextOf(i) = EmptyText
        /\ calls[i].out.err.kind = UndecodableFormat
        /\ calls[i].out.err.status = 500

(***************************************************************************)
(* C3                                                                      *)
(***************************************************************************)
\* the base URL of the client does not parse, so that buildRequest fails
BuildFails == Parse(client.baseUrl).err # NoErr

\* C3: in both variants, when buildRequest fails the operation returns that
\* error and client.Do is never invoked for the call.
C3_BuildFailureReturnedBeforeTransport ==
    \A i \in Callers :
        (Ended(i) /\ BuildFails)
        => /\ calls[i].pc = "returned"
           /\ calls[i].out.called = 0
           /\ calls[i].out.err.kind = "URL parsing error: %s"

(***************************************************************************)
(* C4                                                                      *)
(***************************************************************************)
\* C4: every call of either variant returns either a value with no error or
\* an error with the zero value; a 200 body that fails to decode gives the
\* error and nothing of a partly decoded result.
C4_NoPartialSuccess ==
    \A i \in Callers :
        calls[i].pc = "returned"
        => \/ calls[i].out.err = NoErr
           \/ NoValue(calls[i].op, calls[i].out.value)

(***************************************************************************)
(* C5                                                                      *)
(***************************************************************************)
IsDetection(v) ==
    /\ v.t = "object"
    /\ DOMAIN v.f = {"confidence", "language"}
    /\ v.f.confidence.t = "number"
    /\ v.f.language.t = "string"
IsLanguage(v) ==
    /\ v.t = "object"
    /\ DOMAIN v.f = {"code", "name"}
    /\ v.f.code.t = "string"
    /\ v.f.name.t = "string"
IsTranslation(v) ==
    /\ v.t = "object"
    /\ "translatedText" \in DOMAIN v.f
    /\ v.f.translatedText.t = "string"
    /\ DOMAIN v.f \subseteq {"translatedText", "detectedLanguage"}
    /\ "detectedLanguage" \in DOMAIN v.f => IsDetection(v.f.detectedLanguage)

\* a body text that is well formed for the operation (section 6)
WellFormed(op, tx) ==
    /\ tx.text = "json"
    /\ CASE op = "Detect" ->
              tx.v.t = "array" /\ \A k \in 1..Len(tx.v.a) : IsDetection(tx.v.a[k])
         [] op = "GetLanguages" ->
              tx.v.t = "array" /\ \A k \in 1..Len(tx.v.a) : IsLanguage(tx.v.a[k])
         [] op = "Translate" -> IsTranslation(tx.v)

\* C5: on a 200 response with a well-formed body the operation returns what
\* the service sent: Detect and GetLanguages every element of the array, in
\* the order given, fields intact; Translate the translatedText string.
C5_ReturnsWhatTheServiceSent ==
    \A i \in Callers :
        (Delivered(i) /\ StatusOf(i) = 200 /\ WellFormed(calls[i].op, TextOf(i)))
        => LET v == TextOf(i).v
               out == calls[i].out
           IN /\ out.err = NoErr
              /\ CASE calls[i].op = "Detect" ->
                        /\ ~out.value.nil
                        /\ Len(out.value.items) = Len(v.a)
                        /\ \A k \in 1..Len(v.a) :
                              /\ out.value.items[k].confidence = v.a[k].f.confidence.n
                              /\ out.value.items[k].language = v.a[k].f.language.s
                   [] calls[i].op = "GetLanguages" ->
                        /\ ~out.value.nil
                        /\ Len(out.value.items) = Len(v.a)
                        /\ \A k \in 1..Len(v.a) :
                              /\ out.value.items[k].code = v.a[k].f.code.s
                              /\ out.value.items[k].name = v.a[k].f.name.s
                   [] calls[i].op = "Translate" ->
                        out.value = v.f.translatedText.s

C5_Witness ==
    \E i \in Callers :
        /\ Delivered(i) /\ StatusOf(i) = 200
        /\ calls[i].op = "GetLanguages"
        /\ TextOf(i) = Doc(JArr(<<LangEn, LangFr>>))
        /\ calls[i].out.value.items =
              <<[code |-> "en", name |-> "English"], [code |-> "fr", name |-> "French"]>>

(***************************************************************************)
(* C6                                                                      *)
(***************************************************************************)
\* C6: when the status is 200, the body handed to the operation is closed
\* exactly once on every way out of it, the failed decode included.
C6_OkBodyClosedOnce ==
    \A i \in Callers :
        (Delivered(i) /\ StatusOf(i) = 200) => calls[i].out.closes = 1

C6_Witness ==
    \E i \in Callers :
        /\ Delivered(i) /\ StatusOf(i) = 200
        /\ calls[i].out.decoded
        /\ calls[i].out.err.kind = "json"
        /\ calls[i].out.closes = 1

(***************************************************************************)
(* C7                                                                      *)
(***************************************************************************)
\* C7: client.Do is invoked at most once per call; when the transport fails
\* the call returns the transport's error as it is, with no status check, no
\* decode and no second dispatch.
C7_SingleAttempt ==
    \A i \in Callers :
        /\ Ended(i) => calls[i].out.called <= 1
        /\ (calls[i].pc = "returned" /\ "reply" \in DOMAIN calls[i]
              /\ calls[i].reply.err # NoErr)
           => /\ calls[i].out.err = calls[i].reply.err
              /\ calls[i].out.called = 1
              /\ ~calls[i].out.checked
              /\ ~calls[i].out.decoded
              /\ NoValue(calls[i].op, calls[i].out.value)

C7_Witness ==
    \E i \in Callers :
        /\ calls[i].pc = "returned" /\ "reply" \in DOMAIN calls[i]
        /\ calls[i].reply = TransportFailure("connection refused")
        /\ calls[i].out.err = Err("transport", 0, "connection refused")
        /\ calls[i].out.called = 1

(***************************************************************************)
(* C8                                                                      *)
(***************************************************************************)
\* the requests call i has built: the one in flight, or the one of its outcome
HasRequest(i) ==
    \/ calls[i].pc \in {"waiting", "replied"}
    \/ Ended(i) /\ ~calls[i].out.req.nil
RequestOf(i) ==
    IF calls[i].pc \in {"waiting", "replied"} THEN calls[i].req ELSE calls[i].out.req
FormKeys(req) == {req.Body[k][1] : k \in 1..Len(req.Body)}

\* C8: with a token, every request of the three operations carries api_key
\* equal to the configured token among its form parameters and in no
\* header; without a token no request carries api_key, and GetLanguages
\* sends no parameter at all.
C8_ApiKeyIsAFormParameter ==
    \A i \in Callers :
        HasRequest(i)
        => LET req == RequestOf(i)
           IN IF HasToken(client)
              THEN /\ \E k \in 1..Len(req.Body) : req.Body[k] = <<"api_key", client.token>>
                   /\ \A k \in 1..Len(req.Body) :
                         req.Body[k][1] = "api_key" => req.Body[k][2] = client.token
                   /\ DOMAIN req.Header \subseteq {"Content-Type"}
              ELSE /\ "api_key" \notin FormKeys(req)
                   /\ DOMAIN req.Header \subseteq {"Content-Type"}
                   /\ calls[i].op = "GetLanguages" => req.Body = <<>>

C8_Witness ==
    \E i \in Callers :
        /\ HasToken(client) /\ client.token = "secret"
        /\ calls[i].pc = "waiting"
        /\ calls[i].op = "GetLanguages"
        /\ calls[i].req.Body = <<<<"api_key", "secret">>>>

(***************************************************************************)
(* C9                                                                      *)
(***************************************************************************)
\* the reply made to call i's own request, if one was made
OwnReply(i) == IF "reply" \in DOMAIN calls[i] THEN calls[i].reply ELSE NoReply

\* the outcome of every ended call is the one its own operation, arguments
\* and reply give on the client
OwnOutcome ==
    \A i \in Callers :
        /\ Ended(i) => calls[i].out = Run(client, calls[i].op, calls[i].args, OwnReply(i))
        /\ calls[i].pc \in {"waiting", "replied"} =>
              calls[i].req = Run(client, calls[i].op, calls[i].args, NoReply).req

C10_NoBodyLeft ==
    \A i \in Callers : Delivered(i) => calls[i].out.closes >= 1

==========================================================================
